---- MODULE Spec2Model ----
(***************************************************************************)
(* mcp-notes: the NotesDB repository (SQLite through better-sqlite3) and   *)
(* the NotesHandlers tool handlers that drive it.                          *)
(*                                                                         *)
(* Text values that are matched with LIKE (title, content, tag name,       *)
(* query) are sequences of one-character strings.  Values that are only    *)
(* compared for equality (folder, priority, dueDate) are strings.          *)
(* Timestamps are produced by new Date().toISOString(), a fixed-width      *)
(* format whose text order is the time order; they are integers here.      *)
(* A JavaScript object is a record holding exactly the supplied keys, so   *)
(* `x.k === undefined` is `k \notin DOMAIN x`.                             *)
(***************************************************************************)
EXTENDS Integers, Sequences, FiniteSets, Bags, TLC

VARIABLES
  notes,    \* table notes: set of rows
  tags,     \* table tags: bag of rows [name, noteId] (the row id is never read)
  folders,  \* table folders: set of rows
  seq,      \* sqlite_sequence: the AUTOINCREMENT counter of notes and of folders
  clock,    \* what new Date() returns
  last      \* the last tool call: [op, args, outcome, value], and for a
            \* search the getNoteTags lookups it made

vars == <<notes, tags, folders, seq, clock, last>>

----------------------------------------------------------------------------
(* Bounds of the model *)

MaxNotes == 2       \* notes ever created
MaxClock == 1       \* clock ticks

----------------------------------------------------------------------------
(* Values *)

\* SQL NULL; better-sqlite3 binds undefined as NULL and reads NULL back as null
Null == "NULL"

Priorities == {"low", "medium", "high"}

Has(o, k) == k \in DOMAIN o

\* the value bound to named parameter @k of an object that carries key k
\* with value undefined when the caller omitted it
Bind(o, k) == IF Has(o, k) THEN o[k] ELSE Null

Range(s) == {s[i] : i \in 1..Len(s)}

\* ASCII case folding used by LIKE
Lower(c) ==
  CASE c = "A" -> "a"
    [] c = "B" -> "b"
    [] OTHER -> c

\* SQLite's LIKE: % matches any run of characters, _ any single character,
\* other characters match case-insensitively (ASCII)
RECURSIVE Like(_, _)
Like(s, pat) ==
  IF pat = <<>> THEN s = <<>>
  ELSE IF Head(pat) = "%"
    THEN Like(s, Tail(pat)) \/ (s # <<>> /\ Like(Tail(s), pat))
    ELSE /\ s # <<>>
         /\ (Head(pat) = "_" \/ Lower(Head(pat)) = Lower(Head(s)))
         /\ Like(Tail(s), Tail(pat))

\* the parameter `%${options.query}%`
Wrap(query) == <<"%">> \o query \o <<"%">>

----------------------------------------------------------------------------
(* NotesDB: each method is an operator from the tables to an outcome and   *)
(* the tables after it.  An outcome "ok" is a normal return; any other     *)
(* outcome is the message of the error the statement throws, and the       *)
(* statement then changes nothing.                                         *)

Columns == {"title", "content", "folder", "priority", "dueDate", "createdAt", "updatedAt"}

\* CHECK(priority IN ('low', 'medium', 'high')); a NULL passes a CHECK
CheckPriority(p) == p = Null \/ p \in Priorities

\* an INSERT that leaves the dueDate column out
NoteRowNoDueDate(note, id) ==
  [id |-> id,
   title |-> note.title,
   content |-> note.content,
   folder |-> Bind(note, "folder"),
   priority |-> Bind(note, "priority"),
   dueDate |-> Null,
   createdAt |-> note.createdAt,
   updatedAt |-> note.updatedAt]

\* the row INSERT INTO notes (...) VALUES (@title, ...) writes
NoteRow(note, id) ==
  [id |-> id,
   title |-> note.title,
   content |-> note.content,
   folder |-> Bind(note, "folder"),
   priority |-> Bind(note, "priority"),
   dueDate |-> Bind(note, "dueDate"),
   createdAt |-> note.createdAt,
   updatedAt |-> note.updatedAt]

\* SELECT name FROM tags WHERE noteId = ?  (the order of the array is the
\* engine's choice, so the array is kept as a bag of names)
getNoteTags(tg, noteId) ==
  LET names == {t.name : t \in {x \in DOMAIN tg : x.noteId = noteId}}
  IN [nm \in names |-> tg[[name |-> nm, noteId |-> noteId]]]

\* a note returned without its tags
HydrateNoTags(tg, row) == [k \in DOMAIN row \cup {"tags"} |->
                            IF k = "tags" THEN EmptyBag ELSE row[k]]

Hydrate(tg, row) == [k \in DOMAIN row \cup {"tags"} |->
                       IF k = "tags" THEN getNoteTags(tg, row.id) ELSE row[k]]

\* a notes table whose title column is not UNIQUE
TitleNeverTaken(ns, title) == FALSE

\* title TEXT UNIQUE NOT NULL: the insert or update of this title is refused
TitleTaken(ns, title) == \E n \in ns : n.title = title

createNote(ns, sq, note) ==
  IF TitleTaken(ns, note.title)
    THEN [outcome |-> "UNIQUE constraint failed: notes.title", notes |-> ns, seq |-> sq]
  ELSE IF ~CheckPriority(Bind(note, "priority"))
    THEN [outcome |-> "CHECK constraint failed: priority", notes |-> ns, seq |-> sq]
  ELSE [outcome |-> "ok",
        notes |-> ns \cup {NoteRow(note, sq.notes + 1)},
        seq |-> [sq EXCEPT !.notes = @ + 1],
        value |-> [k \in DOMAIN note \cup {"id"} |->
                     IF k = "id" THEN sq.notes + 1 ELSE note[k]]]

\* Absent == "no row": .get() returns undefined
NotFound == [found |-> FALSE]

getNoteByTitle(ns, tg, title) ==
  IF \E n \in ns : n.title = title
    THEN [found |-> TRUE,
          note |-> Hydrate(tg, CHOOSE n \in ns : n.title = title)]
    ELSE NotFound

getNote(ns, tg, id) ==
  IF \E n \in ns : n.id = id
    THEN [found |-> TRUE, note |-> Hydrate(tg, CHOOSE n \in ns : n.id = id)]
    ELSE NotFound

\* an UPDATE that writes every optional column, NULL when not supplied
SetEveryColumn(row, updates, keys) ==
  [k \in DOMAIN row |->
     IF k \in keys THEN updates[k]
     ELSE IF k \in {"folder", "priority", "dueDate"} THEN Null
     ELSE row[k]]

\* SET k = @k for each key k: the other columns keep their values
SetColumns(row, updates, keys) ==
  [k \in DOMAIN row |-> IF k \in keys THEN updates[k] ELSE row[k]]

\* UPDATE notes SET k = @k, ... WHERE id = @id, for the keys of updates
\* other than id and tags
updateNote(ns, id, updates) ==
  LET keys == DOMAIN updates \ {"id", "tags"}
      hit == {n \in ns : n.id = id}
      new(n) == SetColumns(n, updates, keys)
  IN IF keys = {}
       THEN [outcome |-> "syntax error", notes |-> ns, changes |-> 0]
     ELSE IF ~(keys \subseteq Columns)
       THEN [outcome |-> "no such column", notes |-> ns, changes |-> 0]
     ELSE IF hit # {} /\ Has(updates, "priority") /\ ~CheckPriority(updates.priority)
       THEN [outcome |-> "CHECK constraint failed: priority", notes |-> ns, changes |-> 0]
     ELSE IF Has(updates, "title") /\ hit # {} /\ TitleTaken(ns \ hit, updates.title)
       THEN [outcome |-> "UNIQUE constraint failed: notes.title", notes |-> ns, changes |-> 0]
     ELSE [outcome |-> "ok",
           notes |-> (ns \ hit) \cup {new(n) : n \in hit},
           changes |-> Cardinality(hit)]

\* a connection on which foreign keys are not enforced
NoCascade(tg, id) == tg

\* FOREIGN KEY(noteId) REFERENCES notes(id) ON DELETE CASCADE, with
\* PRAGMA foreign_keys = ON: the tag rows of a deleted note go with it
Cascade(tg, id) ==
  LET keep == {t \in DOMAIN tg : t.noteId # id}
  IN [t \in keep |-> tg[t]]

\* DELETE FROM notes WHERE id = ?
deleteNote(ns, tg, id) ==
  LET hit == {n \in ns : n.id = id}
  IN [outcome |-> "ok",
      notes |-> ns \ hit,
      tags |-> IF hit = {} THEN tg ELSE Cascade(tg, id),
      changes |-> Cardinality(hit)]

\* a tags table without UNIQUE(name, noteId)
InsertAlways(tg, row) == tg (+) SetToBag({row})

\* what INSERT OR IGNORE does with a row that breaks UNIQUE(name, noteId)
InsertOrIgnore(tg, row) ==
  IF row \in DOMAIN tg THEN tg ELSE tg (+) SetToBag({row})

\* INSERT OR IGNORE INTO tags (name, noteId) VALUES (?, ?); OR IGNORE does
\* not cover a foreign key violation
addTag(ns, tg, noteId, tag) ==
  IF ~\E n \in ns : n.id = noteId
    THEN [outcome |-> "FOREIGN KEY constraint failed", tags |-> tg]
    ELSE [outcome |-> "ok", tags |-> InsertOrIgnore(tg, [name |-> tag, noteId |-> noteId])]

\* DELETE FROM tags WHERE noteId = ? AND name IN (?, ...)
removeTags(tg, noteId, names) ==
  LET keep == {t \in DOMAIN tg : ~(t.noteId = noteId /\ t.name \in Range(names))}
  IN [outcome |-> "ok", tags |-> [t \in keep |-> tg[t]]]

createFolder(fs, sq, name, now) ==
  IF \E f \in fs : f.name = name
    THEN [outcome |-> "UNIQUE constraint failed: folders.name", folders |-> fs, seq |-> sq]
    ELSE [outcome |-> "ok",
          folders |-> fs \cup {[id |-> sq.folders + 1, name |-> name, createdAt |-> now]},
          seq |-> [sq EXCEPT !.folders = @ + 1],
          value |-> [id |-> sq.folders + 1, name |-> name, createdAt |-> now]]

----------------------------------------------------------------------------
(* NotesDB.searchNotes.  The statement it builds is evaluated as SQLite     *)
(* evaluates it: the rows of notes, joined to their tag rows when 'tags'   *)
(* is searched, filtered by WHERE, projected on n.*, made DISTINCT,        *)
(* ordered, and cut by LIMIT and OFFSET.  Row sets are bags, so that a     *)
(* note the join yields twice is there twice.                              *)

\* options.searchIn?.includes('tags')
JoinsTags(o) == Has(o, "searchIn") /\ "tags" \in Range(o.searchIn)

\* if (options.k) for a string: undefined and '' are false
TruthyText(o, k) == Has(o, k) /\ o[k] # ""

\* if (options.k) for a number: undefined and 0 are false
TruthyNumber(o, k) == Has(o, k) /\ o[k] # 0

\* options.searchIn || ['title', 'content']: an empty array is kept
SearchFields(o) == IF Has(o, "searchIn") THEN o.searchIn ELSE <<"title", "content">>

\* notes n LEFT JOIN tags t ON n.id = t.noteId: one row per tag row of the
\* note, and one row with t.* NULL for a note without tags
LeftJoin(ns, tg) ==
  LET tagged == {n \in ns : \E t \in DOMAIN tg : t.noteId = n.id}
      withTag == {[n |-> n, t |-> t] : n \in tagged, t \in DOMAIN tg}
      pairs == {r \in withTag : r.t.noteId = r.n.id}
      alone == {[n |-> n] : n \in ns \ tagged}
  IN [r \in pairs \cup alone |-> IF Has(r, "t") THEN tg[r.t] ELSE 1]

\* FROM notes n, with the join when tags are searched
From(ns, tg, o) ==
  IF JoinsTags(o) THEN LeftJoin(ns, tg) ELSE [r \in {[n |-> n] : n \in ns} |-> 1]

\* one of the OR-ed conditions: t.name LIKE ? or n.<field> LIKE ?, with the
\* parameter %query%; t.name is NULL in the row of a note without tags, and
\* NULL LIKE ? is not true
FieldCondition(field, r, query) ==
  IF field = "tags"
    THEN Has(r, "t") /\ Like(r.t.name, Wrap(query))
    ELSE Like(r.n[field], Wrap(query))

\* (c1 OR c2 ...), pushed only if (options.query)
TextCondition(o, r) ==
  \E i \in 1..Len(SearchFields(o)) : FieldCondition(SearchFields(o)[i], r, o.query)

\* WHERE conditions.join(' AND ')
Where(o, r) ==
  /\ o.query # <<>> => TextCondition(o, r)
  /\ TruthyText(o, "folder") => r.n.folder = o.folder
  /\ TruthyText(o, "priority") => r.n.priority = o.priority

\* SELECT n.* ... WHERE: the bag of note rows the filtered join yields
Select(ns, tg, o) ==
  LET from == From(ns, tg, o)
      hits == {r \in DOMAIN from : Where(o, r)}
      found == {r.n : r \in hits}
  IN [n \in found |-> BagCardinality([r \in {x \in hits : x.n = n} |-> from[r]])]

\* a SELECT without DISTINCT
NotDistinct(rows) == rows

\* SELECT DISTINCT n.*: rows equal in every column (so in id) are one row
Distinct(rows) == SetToBag(BagToSet(rows))

\* ORDER BY n.updatedAt DESC: every order of the rows in which updatedAt
\* never increases (SQL leaves the order of rows with equal keys open)
RECURSIVE OrderBy(_)
OrderBy(rows) ==
  IF DOMAIN rows = {} THEN {<<>>}
  ELSE LET top == {n \in DOMAIN rows : \A m \in DOMAIN rows : m.updatedAt <= n.updatedAt}
       IN UNION {{<<n>> \o s : s \in OrderBy(rows (-) SetToBag({n}))} : n \in top}

Min(a, b) == IF a <= b THEN a ELSE b

\* an OFFSET that skips one row too few
LimitOffsetOffByOne(sorted, o) ==
  IF TruthyNumber(o, "limit")
    THEN IF TruthyNumber(o, "offset")
           THEN SubSeq(sorted, o.offset, Min(Len(sorted), o.offset + o.limit - 1))
           ELSE SubSeq(sorted, 1, Min(Len(sorted), o.limit))
    ELSE sorted

\* LIMIT ? only if (options.limit), and OFFSET ? only inside it and only
\* if (options.offset)
LimitOffset(sorted, o) ==
  IF TruthyNumber(o, "limit")
    THEN IF TruthyNumber(o, "offset")
           THEN SubSeq(sorted, o.offset + 1, Min(Len(sorted), o.offset + o.limit))
           ELSE SubSeq(sorted, 1, Min(Len(sorted), o.limit))
    ELSE sorted

\* the results searchNotes can return: an error when the statement does not
\* parse ("WHERE ()", from a query with an empty searchIn), else the page
\* with each note's tags attached.  `lookups` lists the note ids that
\* getNoteTags was called with, in the order of the calls.
searchNotes(ns, tg, o) ==
  IF o.query # <<>> /\ SearchFields(o) = <<>>
    THEN {[outcome |-> "syntax error", notes |-> <<>>, lookups |-> <<>>]}
    ELSE {[outcome |-> "ok", notes |-> [i \in DOMAIN page |-> Hydrate(tg, page[i])],
           lookups |-> [i \in DOMAIN page |-> page[i].id]] :
            page \in {LimitOffset(sorted, o) :
                        sorted \in OrderBy(Distinct(Select(ns, tg, o)))}}

----------------------------------------------------------------------------
(* NotesHandlers: one action per tool.  `last` records the call: its       *)
(* outcome is "ok", the McpError code the handler throws, or the message   *)
(* of a database error it lets through.                                    *)

Pick(o, keys) == [k \in DOMAIN o \cap keys |-> o[k]]

Merge(a, b) == [k \in DOMAIN a \cup DOMAIN b |-> IF k \in DOMAIN b THEN b[k] ELSE a[k]]

Call(op, args, outcome, value) ==
  [op |-> op, args |-> args, outcome |-> outcome, value |-> value]

NoValue == <<>>

\* err.message.includes('UNIQUE constraint failed')
IsUnique(outcome) ==
  outcome \in {"UNIQUE constraint failed: notes.title",
               "UNIQUE constraint failed: folders.name"}

\* new Date() moves on between two calls
Tick ==
  /\ clock < MaxClock
  /\ clock' = clock + 1
  /\ UNCHANGED <<notes, tags, folders, seq, last>>

CreateNote(args) ==
  LET now == clock
      r == createNote(notes, seq,
             Merge(Pick(args, {"title", "content", "folder", "priority", "dueDate"}),
                   [createdAt |-> now, updatedAt |-> now]))
  IN /\ notes' = r.notes
     /\ seq' = r.seq
     /\ last' = IF r.outcome = "ok" THEN Call("create_note", args, "ok", r.value)
                ELSE IF IsUnique(r.outcome)
                  THEN Call("create_note", args, "InvalidParams", NoValue)
                ELSE Call("create_note", args, r.outcome, NoValue)
     /\ UNCHANGED <<tags, folders, clock>>

GetNote(args) ==
  LET f == getNoteByTitle(notes, tags, args.title)
  IN /\ last' = IF f.found THEN Call("get_note", args, "ok", f.note)
                ELSE Call("get_note", args, "InvalidParams", NoValue)
     /\ UNCHANGED <<notes, tags, folders, seq, clock>>

UpdateNote(args) ==
  LET f == getNoteByTitle(notes, tags, args.title)
      updates == Merge([updatedAt |-> clock],
                       Pick(args, {"content", "folder", "priority", "dueDate"}))
      r == updateNote(notes, f.note.id, updates)
  IN IF ~f.found
       THEN /\ last' = Call("update_note", args, "InvalidParams", NoValue)
            /\ UNCHANGED <<notes, tags, folders, seq, clock>>
       ELSE /\ notes' = r.notes
            /\ last' = IF r.outcome # "ok" THEN Call("update_note", args, r.outcome, f.note.id)
                       ELSE IF r.changes > 0 THEN Call("update_note", args, "ok", f.note.id)
                       ELSE Call("update_note", args, "InternalError", f.note.id)
            /\ UNCHANGED <<tags, folders, seq, clock>>

DeleteNote(args) ==
  LET f == getNoteByTitle(notes, tags, args.title)
      r == deleteNote(notes, tags, f.note.id)
  IN IF ~f.found
       THEN /\ last' = Call("delete_note", args, "InvalidParams", NoValue)
            /\ UNCHANGED <<notes, tags, folders, seq, clock>>
       ELSE /\ notes' = r.notes
            /\ tags' = r.tags
            /\ last' = IF r.changes > 0 THEN Call("delete_note", args, "ok", Pick(f.note, {"id", "tags"}))
                       ELSE Call("delete_note", args, "InternalError", Pick(f.note, {"id", "tags"}))
            /\ UNCHANGED <<folders, seq, clock>>

\* for (const tag of args.tags) this.db.addTag(note.id, tag): the tables
\* after the loop, or the first error, which ends the loop
RECURSIVE AddEach(_, _, _, _)
AddEach(ns, tg, noteId, list) ==
  IF list = <<>> THEN [outcome |-> "ok", tags |-> tg]
  ELSE LET r == addTag(ns, tg, noteId, Head(list))
       IN IF r.outcome # "ok" THEN r
          ELSE AddEach(ns, r.tags, noteId, Tail(list))

AddTags(args) ==
  LET f == getNoteByTitle(notes, tags, args.title)
      r == AddEach(notes, tags, f.note.id, args.tags)
  IN IF ~f.found
       THEN /\ last' = Call("add_tags", args, "InvalidParams", NoValue)
            /\ UNCHANGED <<notes, tags, folders, seq, clock>>
       ELSE /\ tags' = r.tags
            /\ last' = Call("add_tags", args, r.outcome, Pick(f.note, {"id", "tags"}))
            /\ UNCHANGED <<notes, folders, seq, clock>>

RemoveTags(args) ==
  LET f == getNoteByTitle(notes, tags, args.title)
      r == removeTags(tags, f.note.id, args.tags)
  IN IF ~f.found
       THEN /\ last' = Call("remove_tags", args, "InvalidParams", NoValue)
            /\ UNCHANGED <<notes, tags, folders, seq, clock>>
       ELSE /\ tags' = r.tags
            /\ last' = Call("remove_tags", args, r.outcome, Pick(f.note, {"id", "tags"}))
            /\ UNCHANGED <<notes, folders, seq, clock>>

CreateFolder(args) ==
  LET r == createFolder(folders, seq, args.name, clock)
  IN /\ folders' = r.folders
     /\ seq' = r.seq
     /\ last' = IF r.outcome = "ok" THEN Call("create_folder", args, "ok", r.value)
                ELSE IF IsUnique(r.outcome)
                  THEN Call("create_folder", args, "InvalidParams", NoValue)
                ELSE Call("create_folder", args, r.outcome, NoValue)
     /\ UNCHANGED <<notes, tags, clock>>

\* NotesDB.addTag called with a note id directly (the class is exported)
DbAddTag(noteId, tag) ==
  LET r == addTag(notes, tags, noteId, tag)
  IN /\ tags' = r.tags
     /\ last' = Call("addTag", [noteId |-> noteId, tag |-> tag], r.outcome, NoValue)
     /\ UNCHANGED <<notes, folders, seq, clock>>

SearchNotes(args) ==
  \E r \in searchNotes(notes, tags, args) :
    /\ last' = Merge(Call("search_notes", args, r.outcome, r.notes),
                     [lookups |-> r.lookups])
    /\ UNCHANGED <<notes, tags, folders, seq, clock>>

\* the options get_notes searches with: an empty query, and the folder,
\* limit and offset it was given
GetNotesOptions(args) == Merge([query |-> <<>>], Pick(args, {"folder", "limit", "offset"}))

GetNotes(args) ==
  \E r \in searchNotes(notes, tags, GetNotesOptions(args)) :
    /\ last' = Merge(Call("get_notes", args, r.outcome, r.notes),
                     [lookups |-> r.lookups])
    /\ UNCHANGED <<notes, tags, folders, seq, clock>>

----------------------------------------------------------------------------
(* The repository specification: notes, tags and folders are created and   *)
(* deleted                                                                 *)

TitleA == <<"a">>
TitleB == <<"A", "b">>
TitleC == <<"c">>

TagA == <<"a">>
TagB == <<"a", "b">>
TagC == <<"c">>

CreateArgs ==
  { [title |-> TitleA, content |-> <<"x">>],
    [title |-> TitleA, content |-> <<"y">>, folder |-> "work", priority |-> "high",
     dueDate |-> "2026-11-30"],
    [title |-> TitleB, content |-> <<"x">>, folder |-> "work"],
    [title |-> TitleB, content |-> <<"x">>, priority |-> "urgent"] }

NewValues ==
  [content |-> <<"z">>, folder |-> "home", priority |-> "low", dueDate |-> "2026-12-24"]

\* update_note with every subset of the optional arguments
UpdateArgs ==
  {Merge([title |-> TitleA], Pick(NewValues, S)) : S \in SUBSET DOMAIN NewValues}
    \cup {[title |-> TitleB], [title |-> TitleC, content |-> <<"z">>]}

TitleArgs == {[title |-> t] : t \in {TitleA, TitleB}}

TagArgs ==
  {[title |-> TitleA, tags |-> l] : l \in {<<TagA>>, <<TagA, TagA>>, <<TagB, TagA>>}}
    \cup {[title |-> TitleB, tags |-> <<TagA>>]}

UntagArgs ==
  {[title |-> TitleA, tags |-> l] : l \in {<<TagA>>, <<TagB, TagA>>}}

FolderArgs == {[name |-> "work"]}

Init ==
  /\ notes = {}
  /\ tags = EmptyBag
  /\ folders = {}
  /\ seq = [notes |-> 0, folders |-> 0]
  /\ clock = 0
  /\ last = Call("none", NoValue, "ok", NoValue)

Next ==
  \/ Tick
  \/ \E a \in CreateArgs :
       /\ seq.notes < MaxNotes \/ \E n \in notes : n.title = a.title
       /\ CreateNote(a)
  \/ \E a \in TitleArgs : GetNote(a)
  \/ \E a \in TitleArgs : DeleteNote(a)
  \/ \E a \in TagArgs : AddTags(a)
  \/ \E a \in UntagArgs : RemoveTags(a)
  \/ \E a \in FolderArgs : CreateFolder(a)
  \/ \E id \in 1..MaxNotes, t \in {TagA} : DbAddTag(id, t)

Spec == Init /\ [][Next]_vars

----------------------------------------------------------------------------
(* The update specification: update_note with every subset of its optional *)
(* arguments, on notes that carry tags                                     *)

UpdateNext ==
  \/ Tick
  \/ \E a \in CreateArgs :
       /\ seq.notes < MaxNotes \/ \E n \in notes : n.title = a.title
       /\ CreateNote(a)
  \/ \E a \in UpdateArgs : UpdateNote(a)
  \/ \E a \in {[title |-> TitleA, tags |-> <<TagA>>]} : AddTags(a)

UpdateSpec == Init /\ [][UpdateNext]_vars

----------------------------------------------------------------------------
(* Properties of the repository *)

IdOf(title) == (CHOOSE n \in notes : n.title = title).id

Exists(title) == \E n \in notes : n.title = title

\* the step is a call of tool op: every tool sets `last`, the clock does not
IsCall(op) == last'.op = op /\ clock' = clock

UniqueTitles(ns) == \A n, m \in ns : n.title = m.title => n = m

C2_DeleteCascades ==
  /\ \A t \in DOMAIN tags : \E n \in notes : n.id = t.noteId
  /\ last.op = "delete_note" /\ last.outcome = "ok" =>
       /\ DOMAIN getNoteTags(tags, last.value.id) = {}
       /\ ~\E t \in DOMAIN tags : t.noteId = last.value.id
       /\ ~\E n \in notes : n.id = last.value.id

\* a note that carried two tags was deleted while another note keeps its tag
C2_Witness ==
  /\ last.op = "delete_note" /\ last.outcome = "ok"
  /\ BagCardinality(last.value.tags) = 2
  /\ tags # EmptyBag

TagRows(noteId, list) == {[name |-> nm, noteId |-> noteId] : nm \in Range(list)}

\* C3: add_tags on an existing note, and addTag on an existing note id,
\* raise no error, leave exactly one row for each (name, noteId) named, and
\* change no other row: naming a tag twice, or a tag the note already has,
\* gives the state that adding it once gives.
C3_AddTagIdempotent ==
  [][/\ IsCall("add_tags") /\ Exists(last'.args.title) =>
          LET named == TagRows(IdOf(last'.args.title), last'.args.tags)
          IN /\ last'.outcome = "ok"
             /\ \A row \in DOMAIN tags \cup DOMAIN tags' \cup named :
                  CopiesIn(row, tags') = IF row \in named THEN 1 ELSE CopiesIn(row, tags)
     /\ IsCall("addTag") /\ (\E n \in notes : n.id = last'.args.noteId) =>
          LET named == {[name |-> last'.args.tag, noteId |-> last'.args.noteId]}
          IN /\ last'.outcome = "ok"
             /\ \A row \in DOMAIN tags \cup DOMAIN tags' \cup named :
                  CopiesIn(row, tags') = IF row \in named THEN 1 ELSE CopiesIn(row, tags)]_vars

\* add_tags named a tag twice, one the note already had, and succeeded
C3_Witness ==
  /\ last.op = "add_tags" /\ last.outcome = "ok"
  /\ last.args.tags = <<TagA, TagA>>
  /\ TagA \in DOMAIN last.value.tags
  /\ CopiesIn([name |-> TagA, noteId |-> last.value.id], tags) = 1

\* C9: right after a successful createNote, getNoteByTitle of its title
\* returns the values createNote was given (an omitted optional field as
\* absent), the id createNote returned, and no tag.
C9_CreateThenGet ==
  last.op = "create_note" /\ last.outcome = "ok" =>
    LET f == getNoteByTitle(notes, tags, last.args.title)
    IN /\ f.found
       /\ \A k \in Columns : f.note[k] = Bind(last.value, k)
       /\ \A k \in {"title", "content", "folder", "priority", "dueDate"} :
            f.note[k] = Bind(last.args, k)
       /\ f.note.id = last.value.id
       /\ DOMAIN f.note.tags = {}

\* a note with a due date was created after the first note was deleted
C9_Witness ==
  /\ last.op = "create_note" /\ last.outcome = "ok"
  /\ Has(last.args, "dueDate")
  /\ last.value.id = 2
  /\ Cardinality(notes) = 1

----------------------------------------------------------------------------
(* Properties of update_note *)

Optional == {"content", "folder", "priority", "dueDate"}

\* C8: update_note on an existing note writes the supplied fields among
\* content, folder, priority and dueDate and updatedAt, and nothing else:
\* the note's other columns, its tags, the other notes and the folders
\* are unchanged.
C8_PartialUpdate ==
  [][IsCall("update_note") /\ Exists(last'.args.title) =>
         LET a == last'.args
             old == CHOOSE n \in notes : n.title = a.title
             S == DOMAIN a \cap Optional
         IN /\ last'.outcome = "ok"
            /\ \E new \in notes' :
                 /\ new.id = old.id
                 /\ \A k \in S : new[k] = a[k]
                 /\ new.updatedAt = clock
                 /\ \A k \in DOMAIN old \ (S \cup {"updatedAt"}) : new[k] = old[k]
                 /\ notes' \ {new} = notes \ {old}
            /\ tags' = tags
            /\ folders' = folders]_vars

\* only the folder of a tagged note that has a priority and a due date was
\* updated, at a later time than its creation, next to another note
C8_Witness ==
  /\ last.op = "update_note" /\ last.outcome = "ok"
  /\ DOMAIN last.args = {"title", "folder"}
  /\ Cardinality(notes) = 2
  /\ \E n \in notes :
       /\ n.id = last.value
       /\ n.folder = "home" /\ n.priority = "high" /\ n.dueDate = "2026-11-30"
       /\ n.updatedAt > n.createdAt
       /\ DOMAIN getNoteTags(tags, n.id) # {}

----------------------------------------------------------------------------
(* The search specification: notes are created and tagged, and searched   *)
(* with search_notes and get_notes                                         *)

TitleN == <<"n">>

\* three notes: one found by its tags, one by its title, one by its content
SearchCreateArgs ==
  { [title |-> TitleN, content |-> <<"x">>, folder |-> ""],
    [title |-> TitleB, content |-> <<"y">>, folder |-> "work", priority |-> "high",
     dueDate |-> "2026-11-30"],
    [title |-> TitleC, content |-> <<"x", "a">>, folder |-> "work",
     dueDate |-> "2026-12-24"] }

SearchTagArgs == {[title |-> TitleN, tags |-> <<TagA, TagB, TagC>>]}

Queries == {<<>>, <<"a">>, <<"_">>}

\* the text and the filters of a search
TextRequests ==
  {[query |-> q] : q \in Queries}
    \cup {[query |-> q, searchIn |-> si] :
            q \in Queries,
            si \in {<<"tags">>, <<"title", "tags">>, <<"content">>}}
    \cup {[query |-> q, searchIn |-> <<>>] : q \in {<<>>, <<"a">>}}
    \cup {Merge(r, f) :
            r \in {[query |-> <<>>], [query |-> <<"a">>, searchIn |-> <<"title", "tags">>]},
            f \in {[folder |-> ""], [folder |-> "work"], [priority |-> "high"],
                   [folder |-> "work", priority |-> "high"]}}

Pages ==
  {[limit |-> l] : l \in 0..2}
    \cup {[offset |-> 1], [limit |-> 1, offset |-> 0]}
    \cup {[limit |-> l, offset |-> k] : l \in 1..2, k \in 1..2}

\* the page of a search
PageRequests ==
  {Merge(r, pg) :
     r \in {[query |-> <<>>], [query |-> <<"a">>, searchIn |-> <<"title", "tags">>]},
     pg \in Pages}

\* the order of a search
SortRequests ==
  {Merge([query |-> <<>>], so) :
     so \in {[sortBy |-> "createdAt"], [sortOrder |-> "asc"],
             [sortBy |-> "dueDate", sortOrder |-> "asc"],
             [sortBy |-> "updatedAt", sortOrder |-> "desc"]}}

SearchArgs == TextRequests \cup PageRequests \cup SortRequests

GetNotesArgs ==
  {<<>>, [limit |-> 0], [offset |-> 1], [folder |-> "work", limit |-> 1, offset |-> 1]}

SearchNext ==
  \/ Tick
  \/ \E a \in SearchCreateArgs : CreateNote(a)
  \/ \E a \in SearchTagArgs : AddTags(a)
  \/ \E a \in SearchArgs : SearchNotes(a)
  \/ \E a \in GetNotesArgs : GetNotes(a)

SearchSpec == Init /\ [][SearchNext]_vars

----------------------------------------------------------------------------
(* Properties of the searches.  A search changes no table, so in a state   *)
(* whose last call is a search the tables are those it searched.           *)

IsSearch == last.op \in {"search_notes", "get_notes"} /\ last.outcome = "ok"

\* the options the last search gave to NotesDB.searchNotes
Options == IF last.op = "get_notes" THEN GetNotesOptions(last.args) ELSE last.args

Result == last.value

ResultIds == {Result[i].id : i \in DOMAIN Result}

Max(a, b) == IF a >= b THEN a ELSE b

\* q is a substring of s, compared as the storage engine compares text
\* (without regard to ASCII case)
Contains(s, q) ==
  \E i \in 0..(Len(s) - Len(q)) : \A j \in 1..Len(q) : Lower(s[i + j]) = Lower(q[j])

\* the notes C4 says a search returns
Matches(n, o) ==
  /\ \/ o.query = <<>>
     \/ \E f \in Range(SearchFields(o)) :
          IF f = "tags"
            THEN \E nm \in DOMAIN getNoteTags(tags, n.id) : Contains(nm, o.query)
            ELSE Contains(n[f], o.query)
  /\ ~Has(o, "folder") \/ n.folder = o.folder
  /\ ~Has(o, "priority") \/ n.priority = o.priority

\* C4: a search without pagination over a non-empty set of fields returns
\* the notes n such that the query is empty or a substring of one of the
\* searched fields of n (of one tag of n, for 'tags'), and the folder and
\* priority filters, when given, equal n's.
C4_SearchMatches ==
  IsSearch /\ ~Has(Options, "limit") /\ ~Has(Options, "offset")
           /\ SearchFields(Options) # <<>> =>
    ResultIds = {n.id : n \in {m \in notes : Matches(m, Options)}}

\* dueDate is text and NULL sorts first
DueRank(d) ==
  CASE d = Null -> 0
    [] d = "2026-11-30" -> 1
    [] d = "2026-12-24" -> 2

SortKey(n, field) == IF field = "dueDate" THEN DueRank(n.dueDate) ELSE n[field]

\* C5: the notes of a search result are in the order of the requested
\* sortBy field in the requested sortOrder, updatedAt descending when
\* omitted.
C5_SortedAsRequested ==
  IsSearch =>
    LET field == IF Has(Options, "sortBy") THEN Options.sortBy ELSE "updatedAt"
        order == IF Has(Options, "sortOrder") THEN Options.sortOrder ELSE "desc"
    IN \A i \in 1..(Len(Result) - 1) :
         IF order = "asc"
           THEN SortKey(Result[i], field) <= SortKey(Result[i + 1], field)
           ELSE SortKey(Result[i], field) >= SortKey(Result[i + 1], field)

\* the notes ranked O+1 .. O+L of s
Window(s, O, L) == [i \in 1..Max(0, Min(L, Len(s) - O)) |-> s[O + i]]

\* the sequences the search of o returns when it is given no limit and no
\* offset
Unpaged(o) ==
  {r.notes : r \in searchNotes(notes, tags, Pick(o, DOMAIN o \ {"limit", "offset"}))}

\* C6: with a limit L >= 1 and an offset O (0 when omitted) a search
\* returns the notes ranked O+1 .. O+L of the sequence it returns without
\* them; with an offset and no limit it returns that whole sequence.
C6_Pagination ==
  IsSearch =>
    LET o == Options
        O == IF Has(o, "offset") THEN o.offset ELSE 0
    IN /\ Has(o, "limit") /\ o.limit >= 1 =>
            \E s \in Unpaged(o) : Result = Window(s, O, o.limit)
       /\ ~Has(o, "limit") => Result \in Unpaged(o)

\* of three notes, a search with limit 2 and offset 1 returned the second
\* and the third
C6_Witness ==
  /\ IsSearch /\ Has(Options, "limit") /\ Has(Options, "offset")
  /\ Options.limit = 2 /\ Options.offset = 1
  /\ Options.query = <<>>
  /\ Cardinality(notes) = 3
  /\ Len(Result) = 2
  /\ \E n \in notes : n.id \notin ResultIds /\ \A i \in 1..2 : n.updatedAt > Result[i].updatedAt

\* C7: no note is twice in a search result, and a page of limit L >= 1
\* holds L notes whenever L distinct matching notes remain after the offset.
C7_NoDuplicates ==
  IsSearch =>
    LET o == Options
        O == IF Has(o, "offset") THEN o.offset ELSE 0
        matching == DOMAIN Select(notes, tags, o)
    IN /\ \A i, j \in DOMAIN Result : Result[i].id = Result[j].id => i = j
       /\ Has(o, "limit") /\ o.limit >= 1 =>
            Len(Result) = Min(o.limit, Max(0, Cardinality(matching) - O))

\* a search of titles and tags with limit 2 returned two notes, one of
\* them a note of which two tags match the query
C7_Witness ==
  /\ IsSearch /\ JoinsTags(Options) /\ Options.query = <<"a">>
  /\ Has(Options, "limit") /\ Options.limit = 2 /\ ~Has(Options, "offset")
  /\ Len(Result) = 2
  /\ \E i \in 1..2 :
       Cardinality({nm \in DOMAIN Result[i].tags : Like(nm, Wrap(Options.query))}) = 2

\* C10: a search given a limit L returns at most L notes.
C10_LimitBounds ==
  IsSearch /\ Has(Options, "limit") => Len(Result) <= Options.limit

\* C11: every note a search returns carries all the tag names stored for
\* it at the time of the call (none when it has no tag), and getNoteTags is
\* called once for each note of the returned page, in its order, and for
\* no other note.
C11_TagHydration ==
  IsSearch =>
    /\ \A i \in DOMAIN Result : Result[i].tags = getNoteTags(tags, Result[i].id)
    /\ last.lookups = [i \in DOMAIN Result |-> Result[i].id]
    /\ TruthyNumber(Options, "limit") => Len(last.lookups) <= Options.limit

\* a search of titles and tags with limit 1 returned a note with a tag
\* that does not contain the query, and looked up no tag of the other
\* matching note
C11_Witness ==
  /\ last.op = "search_notes" /\ last.outcome = "ok"
  /\ Options.query = <<"a">> /\ Has(Options, "limit") /\ Options.limit = 1
  /\ Len(Result) = 1
  /\ TagC \in DOMAIN Result[1].tags /\ ~Contains(TagC, Options.query)
  /\ last.lookups = <<Result[1].id>>
  /\ \E n \in notes : n.id # Result[1].id /\ Matches(n, Options)

\* C12: search_notes and get_notes never end in an error: whatever the
\* query, the searchIn list (the empty one included), the filters and the
\* page, the call returns a sequence of notes of the store, the empty one
\* when nothing matches, and leaves the store as it was.
C12_SearchNeverFails ==
  [][IsCall("search_notes") \/ IsCall("get_notes") =>
       /\ last'.outcome = "ok"
       /\ \A i \in DOMAIN last'.value : \E n \in notes : n.id = last'.value[i].id
       /\ notes' = notes /\ tags' = tags /\ folders' = folders /\ seq' = seq]_vars

====
